---- MODULE Spec2Model ----
(***************************************************************************)
(* deepagents-runner: agent selection, execution-with-fallback and the     *)
(* workflow state tracker, modelled from core/agents.py, core/commands.py, *)
(* core/state.py, utils/files.py and terminal/repl.py.                     *)
(***************************************************************************)
EXTENDS Integers, Sequences, FiniteSets, TLC

(***************************************************************************)
(* Bounds of the model.                                                    *)
(***************************************************************************)
\* most agent definition files in a directory
MaxAgents == 2

\* latest time at which update_phase is called
MaxTime == 4

\* longest candidate list handed directly to execute_with_fallback
MaxCandidates == 2
\* longest --agents override list typed at the REPL
MaxOverride == 1
\* longest command history of a session
MaxHistory == 2
\* most commands of a session that fail after their artifact was written
MaxFaults == 1

(***************************************************************************)
(* Optional values: None is the empty tuple, Some(x) the one-tuple.        *)
(***************************************************************************)
None == <<>>
Some(x) == <<x>>
Get(o) == o[1]

Range(s) == {s[k] : k \in 1..Len(s)}

Max(a, b) == IF a >= b THEN a ELSE b
Min(a, b) == IF a <= b THEN a ELSE b

(***************************************************************************)
(* models/__init__.py: the closed enumerations.                            *)
(***************************************************************************)
CommandType ==
  {"constitution", "specify", "clarify", "plan", "tasks", "implement",
   "analyze", "checklist"}

WorkflowPhase ==
  {"draft", "constitution", "specify", "clarify", "plan", "tasks", "implement"}

(***************************************************************************)
(* AgentDefinition: loaded agent definitions.  An agent object is          *)
(* identified by its index in AgentManager.agents (object identity).       *)
(***************************************************************************)
AgentDefinition(n, r, caps, p) ==
  [name |-> n, role |-> r, capabilities |-> caps, priority |-> p]

archie ==
  AgentDefinition("archie", "architect",
                  {"architecture_design", "component_design"}, 2)
stella ==
  AgentDefinition("stella", "staff_engineer",
                  {"architecture_design", "component_design",
                   "project_management", "task_breakdown"}, 3)
generic == AgentDefinition("generic", "generic", {}, 1)
\* a definition file without a role: metadata.get('role', 'generic')
helper == AgentDefinition("helper", "generic", {"project_management"}, 1)

\* a definition whose priority is 0 and whose capabilities exceed those of plan
planner ==
  AgentDefinition("planner", "architect",
                  {"architecture_design", "component_design",
                   "project_management"}, 0)
\* a second definition with role generic and no capabilities
backup == AgentDefinition("backup", "generic", {}, -1)

\* the agent directories the model loads a catalog from
Catalogs ==
  { <<archie, stella, generic>>,
    <<archie, stella>>,
    <<helper, archie, generic>> }

\* AgentManager.COMMAND_CAPABILITIES
COMMAND_CAPABILITIES(c) ==
  CASE c = "specify"      -> {}
    [] c = "clarify"      -> {}
    [] c = "plan"         -> {"architecture_design", "component_design"}
    [] c = "tasks"        -> {"project_management", "task_breakdown"}
    [] c = "implement"    -> {"backend_implementation", "frontend_implementation"}
    [] c = "analyze"      -> {"code_quality", "code_review"}
    [] c = "checklist"    -> {"quality_assurance", "testing"}
    [] c = "constitution" -> {"project_management"}

\* AgentDefinition.matches_capabilities
matches_capabilities(a, required) == \A cap \in required : cap \in a.capabilities

\* a score that grants the bonus to every matching agent
score_for_task_bonusAll(a, required) ==
  IF ~matches_capabilities(a, required) THEN 0 ELSE a.priority + 5

\* AgentDefinition.score_for_task
score_for_task(a, required) ==
  IF ~matches_capabilities(a, required) THEN 0
  ELSE a.priority + (IF required = a.capabilities THEN 5 ELSE 0)

(***************************************************************************)
(* State.                                                                  *)
(***************************************************************************)
VARIABLES
  agents,         \* AgentManager.agents: the loaded catalog, in load order
  enabled,        \* AgentDefinition.enabled of each loaded agent
  pc,             \* position of the running operation
  candidates,     \* execute_with_fallback: the `agents` argument
  i,              \* position in the fallback chain (Len(candidates)+1: generic)
  attempt_number, \* tenacity: attempt of the running execute_agent call
  pending,        \* generation calls in flight
  log,            \* generation calls started and finished, in order
  sleeps,         \* backoff waits taken by the running execute_agent call
  error_details,  \* execute_with_fallback: text of the last exhausted agent
  result,         \* execute_with_fallback: the returned (agent_used, response)
  raised,         \* execute_with_fallback: the AgentExecutionError raised
  cmd,            \* execute_command: the command being executed, or "none"
  state,          \* REPLSession.state: the in-memory WorkflowState
  file,           \* .state/workflow.json: None, or the stored document
  artifacts,      \* names of the artifact files that exist on disk
  feature,        \* REPLSession.feature: the plan_file / tasks_file attributes
  cmd_raised,     \* what execute_command raised to its caller
  faults,         \* commands that failed after their artifact was written
  succeeded,      \* commands that returned success in this session
  entry,          \* state, state file and artifacts when the command began
  wj,             \* write_json: position, path, data and the file it found
  temp_file,      \* .state/workflow.tmp: None, or what was written to it
  loaded,         \* what the last load_state call returned
  exit_code,      \* None while the process runs, else the code it exited with
  agents_dir      \* the agents directory: None (missing), or its *.md files

catalogVars == <<agents, enabled>>
ewfVars ==
  <<candidates, i, attempt_number, pending, log, sleeps, error_details,
    result, raised>>
wfVars == <<cmd, state, file, artifacts, feature, cmd_raised>>
sessionVars == <<succeeded, entry, exit_code, agents_dir>>
trackerVars == <<wj, temp_file, loaded>>
vars ==
  <<agents, enabled, pc, ewfVars, wfVars, faults, sessionVars, trackerVars>>

(***************************************************************************)
(* Agent selection (core/agents.py).                                       *)
(***************************************************************************)
\* a ranking that puts the lowest key first
KeyGreater_ascending(a, b, required) ==
  LET sa == score_for_task(agents[a], required)
      sb == score_for_task(agents[b], required)
  IN  sa < sb \/ (sa = sb /\ agents[a].priority < agents[b].priority)

\* sort key of select_agent / select_agents: (score, priority), reverse=True
KeyGreater(a, b, required) ==
  LET sa == score_for_task(agents[a], required)
      sb == score_for_task(agents[b], required)
  IN  sa > sb \/ (sa = sb /\ agents[a].priority > agents[b].priority)

RECURSIVE InsertSorted(_, _, _)
InsertSorted(x, s, required) ==
  IF s = <<>> THEN <<x>>
  ELSE IF KeyGreater(x, Head(s), required) THEN <<x>> \o s
  ELSE <<Head(s)>> \o InsertSorted(x, Tail(s), required)

\* list.sort(key=..., reverse=True): stable, equal keys keep their order
RECURSIVE SortCandidates(_, _, _)
SortCandidates(s, acc, required) ==
  IF s = <<>> THEN acc
  ELSE SortCandidates(Tail(s), InsertSorted(Head(s), acc, required), required)

\* a lookup that ranks the enabled agents only
select_agent_enabledOnly(required) ==
  LET scored ==
        SelectSeq([k \in 1..Len(agents) |-> k],
                  LAMBDA k : enabled[k] /\ score_for_task(agents[k], required) > 0)
      sorted == SortCandidates(scored, <<>>, required)
  IN  IF sorted = <<>> THEN None ELSE Some(sorted[1])

\* AgentManager.select_agent: the head of the ranking of all agents with a
\* positive score, or None
select_agent(required) ==
  LET scored ==
        SelectSeq([k \in 1..Len(agents) |-> k],
                  LAMBDA k : score_for_task(agents[k], required) > 0)
      sorted == SortCandidates(scored, <<>>, required)
  IN  IF sorted = <<>> THEN None ELSE Some(sorted[1])

\* a lookup that returns the last agent with role generic
get_generic_agent_last ==
  LET gs == {k \in 1..Len(agents) : agents[k].role = "generic"}
  IN  IF gs = {} THEN None
      ELSE Some(CHOOSE k \in gs : \A m \in gs : k >= m)

\* AgentManager.get_generic_agent: first agent with role generic, or None
get_generic_agent ==
  LET gs == {k \in 1..Len(agents) : agents[k].role = "generic"}
  IN  IF gs = {} THEN None
      ELSE Some(CHOOSE k \in gs : \A m \in gs : k <= m)

\* AgentManager.select_agents
select_agents(required, max_agents) ==
  LET scored ==
        SelectSeq([k \in 1..Len(agents) |-> k],
                  LAMBDA k : enabled[k] /\ score_for_task(agents[k], required) > 0)
      sorted == SortCandidates(scored, <<>>, required)
  IN  SubSeq(sorted, 1, Min(max_agents, Len(sorted)))

\* default of select_agents' max_agents parameter
DefaultMaxAgents == 3

\* a selection that returns the ranked list even when it is empty
select_agents_for_command_noFallback(c) ==
  IF COMMAND_CAPABILITIES(c) = {} THEN get_generic_agent
  ELSE select_agents(COMMAND_CAPABILITIES(c), DefaultMaxAgents)

\* AgentManager.select_agents_for_command
select_agents_for_command(c) ==
  LET required_caps == COMMAND_CAPABILITIES(c)
      selected == select_agents(required_caps, DefaultMaxAgents)
  IN  IF required_caps = {} THEN get_generic_agent
      ELSE IF selected # <<>> THEN selected
      ELSE get_generic_agent

(***************************************************************************)
(* The generation capability (llm/base.py LLMProvider.generate): an opaque *)
(* call that returns a text or raises an error with a message.  A message  *)
(* is the set of the fragments it contains.                                *)
(***************************************************************************)
Texts == {"text_a", "text_b"}

ProviderErrors ==
  { {"timeout"}, {"Authentication"}, {"API key"}, {"401"},
    {"Rate limit"}, {"429"}, {"401", "429"} }

\* str.lower() on a fragment
Lower(t) ==
  CASE t = "Archie"         -> "archie"
    [] t = "ARCHIE"         -> "archie"
    [] t = "Stella"         -> "stella"
    [] t = "Authentication" -> "authentication"
    [] t = "API key"        -> "api key"
    [] t = "Rate limit"     -> "rate limit"
    [] OTHER                -> t

\* msg.lower()
LowerMsg(msg) == {Lower(t) : t \in msg}

\* execute_agent: AgentExecutionError(f"Agent {agent.name} execution failed: {e}")
AgentErrorText(a, e) == {a.name, "execution failed"} \cup e

(***************************************************************************)
(* The retry policy of execute_agent (tenacity decorator).                 *)
(***************************************************************************)
\* a retry policy that allows a fourth attempt
MaxAttempts_four == 3 + 1

\* stop=stop_after_attempt(3)
MaxAttempts == 3
\* wait=wait_exponential(multiplier=1, min=2, max=10)
WaitMultiplier == 1
WaitMin == 2
WaitMax == 10

RECURSIVE Pow2(_)
Pow2(n) == IF n <= 0 THEN 1 ELSE 2 * Pow2(n - 1)

(***************************************************************************)
(* execute_with_fallback (core/agents.py).                                 *)
(***************************************************************************)
Event(ev, pos, a, n, t) ==
  [ev |-> ev, i |-> pos, agent |-> a, attempt |-> n, text |-> t]

\* a chain that reports the primary agent whoever ran
AgentAt_primary(pos) ==
  IF candidates # <<>> THEN candidates[1] ELSE Get(get_generic_agent)

\* the agent at position pos of the chain: a candidate, then the generic agent
AgentAt(pos) ==
  IF pos <= Len(candidates) THEN candidates[pos] ELSE Get(get_generic_agent)

\* a chain that starts the next call without awaiting the one in flight
AwaitThenCall_concurrent(inflight, done, new) == inflight \cup new

\* the calls in flight once the awaited call `done` is over and `new` starts
AwaitThenCall(inflight, done, new) == (inflight \ done) \cup new

\* error_msg = error_details or str(last_error)
error_msg(details) == IF details # None THEN Get(details) ELSE {"None"}

\* a classification that looks for the rate-limit markers first
Classify_rateFirst(msg) ==
  IF "rate limit" \in LowerMsg(msg) \/ "429" \in msg
  THEN "Rate limit exceeded"
  ELSE IF "authentication" \in LowerMsg(msg) \/ "api key" \in LowerMsg(msg)
          \/ "401" \in msg
  THEN "Authentication failed"
  ELSE "All agents failed to execute"

\* the if / elif / else over error_msg that picks the message raised
Classify(msg) ==
  IF "authentication" \in LowerMsg(msg) \/ "api key" \in LowerMsg(msg)
     \/ "401" \in msg
  THEN "Authentication failed"
  ELSE IF "rate limit" \in LowerMsg(msg) \/ "429" \in msg
  THEN "Rate limit exceeded"
  ELSE "All agents failed to execute"

\* a fallback that leaves a disabled generic agent alone
TryGeneric_enabledOnly(cands) ==
  /\ get_generic_agent # None
  /\ Get(get_generic_agent) \notin Range(cands)
  /\ enabled[Get(get_generic_agent)]

\* a fallback that forgets the `not in agents` test
TryGeneric_noMembership(cands) == get_generic_agent # None

\* `generic and generic not in agents`
TryGeneric(cands) ==
  get_generic_agent # None /\ Get(get_generic_agent) \notin Range(cands)

\* wait_exponential: the wait after attempt n failed
Backoff(n) == Max(Max(0, WaitMin), Min(WaitMultiplier * Pow2(n - 1), WaitMax))

\* the artifact file each command handler writes
ArtifactOf(c) ==
  CASE c = "specify"      -> "spec.md"
    [] c = "plan"         -> "plan.md"
    [] c = "tasks"        -> "tasks.md"
    [] c = "implement"    -> "implementation.md"
    [] c = "clarify"      -> "clarifications.md"
    [] c = "analyze"      -> "analysis.md"
    [] c = "checklist"    -> "checklist.md"
    [] c = "constitution" -> "CONSTITUTION.md"

\* a handler that goes on without writing its artifact
ArtifactsAfterWrite_skipped(arts, c) == arts

\* with open(artifact_file, 'w') as f: f.write(content)
ArtifactsAfterWrite(arts, c) == arts \cup {ArtifactOf(c)}

\* the generation call of generate_suggestions
SuggestCall == <<0, 1>>

\* execute_command: except Exception as e: raise CommandExecutionError(...)
CommandExecutionError(cause, msg) ==
  [type |-> "CommandExecutionError", cause |-> cause,
   message |-> {"Command failed"} \cup msg]

\* the AgentExecutionError execute_with_fallback raises for error_msg msg
AgentExecutionError(msg) ==
  [type |-> "AgentExecutionError", message |-> {Classify(msg)} \cup msg]

\* Inside a command the frame of execute_with_fallback is gone once it has
\* returned or raised: the handler keeps agent_used, the response and
\* selected_agents only.
FrameGone ==
  /\ i' = 0
  /\ attempt_number' = 0
  /\ log' = <<>>
  /\ sleeps' = <<>>
  /\ error_details' = None

\* a chain that gives up once the listed candidates have failed
MoveOn_noFallback(cands, k) == k < Len(cands)

\* after position k: `for agent in agents` has a next candidate, or the loop
\* is over and the generic agent is tried as the last resort
MoveOn(cands, k) ==
  k < Len(cands) \/ (k = Len(cands) /\ TryGeneric(cands))

\* The chain moves on after position k is exhausted (k = 0: on entry): to the
\* next candidate, to the generic agent, or to the classified failure.
Proceed(cands, k, details, lg, inflight) ==
  IF MoveOn(cands, k)
  THEN /\ i' = k + 1
       /\ attempt_number' = 1
       /\ pending' = AwaitThenCall(inflight, {<<k, MaxAttempts>>}, {<<k + 1, 1>>})
       /\ log' = Append(lg, Event("start", k + 1,
                   IF k < Len(cands) THEN cands[k + 1] ELSE Get(get_generic_agent),
                   1, ""))
       /\ sleeps' = <<>>
       /\ error_details' = details
       /\ raised' = None
       /\ pc' = IF k < Len(cands) THEN "Trying" ELSE "FallbackGeneric"
       /\ cmd_raised' = None
  ELSE /\ pending' = AwaitThenCall(inflight, {<<k, MaxAttempts>>}, {})
       /\ raised' = Some(AgentExecutionError(error_msg(details)))
       /\ IF cmd' = "none"
          THEN /\ pc' = "Failed"
               /\ i' = k
               /\ attempt_number' = 0
               /\ log' = lg
               /\ sleeps' = <<>>
               /\ error_details' = details
          ELSE /\ pc' = "raised"
               /\ FrameGone
       /\ cmd_raised' =
            IF cmd' = "none" THEN None
            ELSE Some(CommandExecutionError("AgentExecutionError",
                        AgentExecutionError(error_msg(details)).message))

\* A direct call of AgentManager.execute_with_fallback(agents=cands, ...).
InvokeFallback(cands) ==
  /\ pc = "idle"
  /\ cmd = "none"
  /\ log = <<>>
  /\ candidates' = cands
  /\ result' = None
  /\ cmd' = "none"
  /\ Proceed(cands, 0, None, <<>>, {})
  /\ UNCHANGED <<sessionVars, trackerVars>>
  /\ UNCHANGED <<agents, enabled, state, file, artifacts, feature, faults>>

\* The pending attempt raises and fewer than 3 attempts were made: tenacity
\* sleeps and calls execute_agent again.
AttemptFails(e) ==
  /\ pc \in {"Trying", "FallbackGeneric"}
  /\ attempt_number < MaxAttempts
  /\ attempt_number' = attempt_number + 1
  /\ pending' = AwaitThenCall(pending, {<<i, attempt_number>>},
                              {<<i, attempt_number + 1>>})
  /\ log' = log \o << Event("fail", i, AgentAt(i), attempt_number, ""),
                      Event("start", i, AgentAt(i), attempt_number + 1, "") >>
  /\ sleeps' = Append(sleeps, Backoff(attempt_number))
  /\ UNCHANGED <<sessionVars, trackerVars>>
  /\ UNCHANGED <<agents, enabled, pc, candidates, i, error_details, result,
                 raised, wfVars, faults>>

\* a chain that keeps the error of the first agent that failed
AgentExhausted_firstError(e) ==
  /\ pc \in {"Trying", "FallbackGeneric"}
  /\ attempt_number = MaxAttempts
  /\ cmd' = cmd
  /\ Proceed(candidates, i,
             IF error_details # None THEN error_details
             ELSE Some(AgentErrorText(agents[AgentAt(i)], e)),
             Append(log, Event("fail", i, AgentAt(i), attempt_number, "")),
             pending)
  /\ UNCHANGED <<sessionVars, trackerVars>>
  /\ UNCHANGED <<agents, enabled, candidates, result, state, file, artifacts,
                 feature, faults>>

\* The pending attempt raises and it was the last one: RetryError reaches the
\* except clause of execute_with_fallback, which moves on.
AgentExhausted(e) ==
  /\ pc \in {"Trying", "FallbackGeneric"}
  /\ attempt_number = MaxAttempts
  /\ cmd' = cmd
  /\ Proceed(candidates, i,
             Some(AgentErrorText(agents[AgentAt(i)], e)),
             Append(log, Event("fail", i, AgentAt(i), attempt_number, "")),
             pending)
  /\ UNCHANGED <<sessionVars, trackerVars>>
  /\ UNCHANGED <<agents, enabled, candidates, result, state, file, artifacts,
                 feature, faults>>

(***************************************************************************)
(* The workflow state tracker (core/state.py, models/workflow.py).         *)
(***************************************************************************)
\* the feature of the session
FeatureId == "001"

\* datetime.isoformat / datetime.fromisoformat
isoformat(t) == <<"iso", t>>
fromisoformat(x) == x[2]

\* CommandRecord(command, timestamp)
CommandRecord(c, t) == [command |-> c, timestamp |-> t]

\* a load that starts a missing state in the specify phase
FreshState_specify(t) ==
  [feature_id |-> FeatureId, current_phase |-> "specify",
   completed_commands |-> <<>>, suggested_next |-> None,
   context_data |-> <<>>, last_checkpoint |-> t, last_updated |-> t]

\* load_state, no state file: WorkflowState(feature_id, current_phase=DRAFT)
FreshState(t) ==
  [feature_id |-> FeatureId, current_phase |-> "draft",
   completed_commands |-> <<>>, suggested_next |-> None,
   context_data |-> <<>>, last_checkpoint |-> t, last_updated |-> t]

\* save_state: the dict handed to write_json
ToDocument(st) ==
  [feature_id |-> st.feature_id,
   current_phase |-> st.current_phase,
   completed_commands |->
     [k \in 1..Len(st.completed_commands) |->
        [command |-> st.completed_commands[k].command,
         timestamp |-> isoformat(st.completed_commands[k].timestamp)]],
   suggested_next |-> st.suggested_next,
   context_data |-> st.context_data,
   last_checkpoint |-> isoformat(st.last_checkpoint),
   last_updated |-> isoformat(st.last_updated)]

\* load_state, state file present: the WorkflowState built from the document
FromDocument(d) ==
  [feature_id |-> d.feature_id,
   current_phase |-> d.current_phase,
   completed_commands |->
     [k \in 1..Len(d.completed_commands) |->
        CommandRecord(d.completed_commands[k].command,
                      fromisoformat(d.completed_commands[k].timestamp))],
   suggested_next |-> d.suggested_next,
   context_data |-> d.context_data,
   last_checkpoint |-> fromisoformat(d.last_checkpoint),
   last_updated |-> fromisoformat(d.last_updated)]

\* the time stamps a state object / a state document holds
Stamps(st) ==
  {st.last_checkpoint, st.last_updated}
    \cup {st.completed_commands[k].timestamp : k \in 1..Len(st.completed_commands)}

RECURSIVE SetMax(_)
SetMax(S) ==
  IF S = {} THEN 0
  ELSE LET x == CHOOSE y \in S : TRUE IN Max(x, SetMax(S \ {x}))

\* datetime.now(): later than every time stamp in the state object and in
\* the state file
now(st, f) ==
  1 + SetMax(Stamps(st) \cup (IF f = None THEN {} ELSE Stamps(FromDocument(Get(f)))))

\* StateManager.load_state
load_state(f, t) == IF f = None THEN FreshState(t) ELSE FromDocument(Get(f))

\* the value types json.dump writes as they are
JsonTypes == {"str", "int", "bool", "null"}

\* json.dump(..., default=str): a value of any other type is written as the
\* string str(value)
JsonValue(v) ==
  IF v.type \in JsonTypes THEN v ELSE [type |-> "str", repr |-> v.repr]

\* json.dump then json.load of the dict save_state builds
json_dump(data) ==
  [data EXCEPT !.context_data = [k \in DOMAIN @ |-> JsonValue(@[k])]]

\* write_json: the file after the call; a failed write leaves it as it was
write_json(f, data, ok) == IF ok THEN Some(json_dump(data)) ELSE f

\* no write_json call is running
NoCall == [pc |-> "none"]

\* StateManager.STATE_FILENAME
STATE_FILENAME == "workflow.json"

\* a save that writes the document straight to the state file
temp_path_inPlace(path) == path

\* file_path.with_suffix('.tmp')
temp_path(path) == "workflow.tmp"

\* a file whose writer stopped before the document was complete
Truncated(data) == [truncated |-> data]
IsTruncated(content) == "truncated" \in DOMAIN content

\* the content of the file at path
FsRead(path) == IF path = STATE_FILENAME THEN file ELSE temp_file

\* the file at path gets the content
FsWrite(path, content) ==
  /\ file' = IF path = STATE_FILENAME THEN content ELSE file
  /\ temp_file' = IF path = STATE_FILENAME THEN temp_file ELSE content

\* StateManager.save_state: the state object after the call (last_updated stamped)
save_state(st, t) == [st EXCEPT !.last_updated = t]

\* a tracker that keeps the last command only
record_command_replace(st, c, t) ==
  save_state([st EXCEPT !.completed_commands = <<CommandRecord(c, t)>>], t + 1)

\* a tracker that stores the command's own suggestion with its record
record_command_suggesting(st, c, t) ==
  save_state([st EXCEPT !.completed_commands = Append(@, CommandRecord(c, t)),
                        !.suggested_next =
                           CASE c = "specify" -> <<"plan">>
                             [] c = "plan"    -> <<"tasks">>
                             [] c = "tasks"   -> <<"implement">>
                             [] OTHER         -> @], t + 1)

\* StateManager.record_command: the state object after the append and the save
record_command(st, c, t) ==
  save_state([st EXCEPT !.completed_commands =
                          Append(@, CommandRecord(c, t))], t + 1)

\* StateManager.update_phase: the state object after the assignments and
\* the save
update_phase(st, phase, t) ==
  save_state([st EXCEPT !.current_phase = phase, !.last_checkpoint = t], t + 1)

\* write_json is entered with the dict save_state built
EnterWriteJson(st) ==
  wj' = [pc |-> "mkdir", path |-> STATE_FILENAME, data |-> ToDocument(st),
         before |-> file]

\* except Exception as e: raise StateSaveError(...)
RaiseStateSaveError == wj' = [wj EXCEPT !.pc = "raised"]

\* a caller of the tracker API is free to call it
TrackerIdle == pc = "idle" /\ cmd = "none" /\ wj.pc \in {"none", "done", "raised"}

\* StateManager.record_command(state, c) up to the entry of write_json
TrackerRecord(c) ==
  /\ TrackerIdle
  /\ Len(state.completed_commands) < MaxHistory
  /\ state' = record_command(state, c, now(state, file))
  /\ EnterWriteJson(state')
  /\ UNCHANGED <<agents, enabled, pc, ewfVars, cmd, file, artifacts, feature,
                 cmd_raised, faults, sessionVars, temp_file, loaded>>

\* StateManager.update_phase(state, phase) up to the entry of write_json
TrackerUpdatePhase(phase) ==
  /\ TrackerIdle
  /\ now(state, file) <= MaxTime
  /\ state' = update_phase(state, phase, now(state, file))
  /\ EnterWriteJson(state')
  /\ UNCHANGED <<agents, enabled, pc, ewfVars, cmd, file, artifacts, feature,
                 cmd_raised, faults, sessionVars, temp_file, loaded>>

\* file_path.parent.mkdir(parents=True, exist_ok=True)
WriteJsonMkdir(ok) ==
  /\ pc = "idle"
  /\ wj.pc = "mkdir"
  /\ IF ok THEN wj' = [wj EXCEPT !.pc = "open"] ELSE RaiseStateSaveError
  /\ UNCHANGED <<agents, enabled, pc, ewfVars, wfVars, faults, sessionVars,
                 temp_file, loaded>>

\* open(temp_path, 'w'): the file is created, or emptied
WriteJsonOpen(ok) ==
  /\ pc = "idle"
  /\ wj.pc = "open"
  /\ IF ok
     THEN /\ wj' = [wj EXCEPT !.pc = "dump"]
          /\ FsWrite(temp_path(wj.path), Some(Truncated(wj.data)))
     ELSE /\ RaiseStateSaveError
          /\ UNCHANGED <<file, temp_file>>
  /\ UNCHANGED <<agents, enabled, pc, ewfVars, cmd, state, artifacts, feature,
                 cmd_raised, faults, sessionVars, loaded>>

\* json.dump(data, f, indent=2, default=str) and the close of the file: the
\* whole document is written, or the write stops on the way
WriteJsonDump(ok) ==
  /\ pc = "idle"
  /\ wj.pc = "dump"
  /\ IF ok
     THEN /\ wj' = [wj EXCEPT !.pc = "replace"]
          /\ FsWrite(temp_path(wj.path), Some(json_dump(wj.data)))
     ELSE /\ RaiseStateSaveError
          /\ UNCHANGED <<file, temp_file>>
  /\ UNCHANGED <<agents, enabled, pc, ewfVars, cmd, state, artifacts, feature,
                 cmd_raised, faults, sessionVars, loaded>>

\* temp_path.replace(file_path): the rename is atomic
WriteJsonReplace(ok) ==
  /\ pc = "idle"
  /\ wj.pc = "replace"
  /\ IF ok
     THEN /\ wj' = [wj EXCEPT !.pc = "done"]
          /\ IF temp_path(wj.path) = wj.path
             THEN UNCHANGED <<file, temp_file>>
             ELSE /\ file' = FsRead(temp_path(wj.path))
                  /\ temp_file' = None
     ELSE /\ RaiseStateSaveError
          /\ UNCHANGED <<file, temp_file>>
  /\ UNCHANGED <<agents, enabled, pc, ewfVars, cmd, state, artifacts, feature,
                 cmd_raised, faults, sessionVars, loaded>>

\* the process dies while write_json runs; the files stay as they are
Crash ==
  /\ pc = "idle"
  /\ wj.pc \in {"mkdir", "open", "dump", "replace"}
  /\ pc' = "crashed"
  /\ UNCHANGED <<agents, enabled, ewfVars, wfVars, faults, sessionVars,
                 trackerVars>>

\* read_json raised: except Exception as e: raise StateLoadError(...)
StateLoadError == [type |-> "StateLoadError"]

\* StateManager.load_state(feature_id), by this process or by another one,
\* at any point of a save
TrackerLoad ==
  /\ cmd = "none"
  /\ loaded' = IF file # None /\ IsTruncated(Get(file))
               THEN Some(StateLoadError)
               ELSE Some(load_state(file, now(state, file)))
  /\ UNCHANGED <<agents, enabled, pc, ewfVars, wfVars, faults, sessionVars,
                 wj, temp_file>>

(***************************************************************************)
(* The command handlers (core/commands.py).                                *)
(***************************************************************************)
\* handlers that assign the phase for every command that names one
PhaseAfter_everyPhase(c, phase) == IF c \in WorkflowPhase THEN c ELSE phase

\* state.current_phase = WorkflowPhase.X, for the handlers that assign it
PhaseAfter(c, phase) ==
  IF c \in {"constitution", "specify", "plan", "tasks", "implement"}
  THEN c ELSE phase

\* handlers that clear the suggestion when they have none to make
SuggestedAfter_reset(c, suggested) ==
  CASE c = "specify" -> Some("plan")
    [] c = "plan"    -> Some("tasks")
    [] c = "tasks"   -> Some("implement")
    [] OTHER         -> None

\* state.suggested_next = CommandType.X, for the handlers that assign it
SuggestedAfter(c, suggested) ==
  CASE c = "specify" -> Some("plan")
    [] c = "plan"    -> Some("tasks")
    [] c = "tasks"   -> Some("implement")
    [] OTHER         -> suggested

\* feature.plan_file / feature.tasks_file is set and the file exists
HasPlan == feature.plan_file /\ "plan.md" \in artifacts
HasTasks == feature.tasks_file /\ "tasks.md" \in artifacts

\* a check that asks every later command for the specification only
PrerequisiteMet_specOnly(c) ==
  c \in {"plan", "clarify", "tasks", "implement", "analyze", "checklist"}
    => "spec.md" \in artifacts

\* the handler's check of the artifacts it reads
PrerequisiteMet(c) ==
  CASE c \in {"plan", "clarify"}       -> "spec.md" \in artifacts
    [] c = "tasks"                     -> HasPlan
    [] c = "implement"                 -> HasTasks
    [] c \in {"analyze", "checklist"}  ->
         "spec.md" \in artifacts \/ HasPlan \/ HasTasks
    [] OTHER                           -> TRUE

\* the message of the CommandExecutionError the failed check raises
PrerequisiteError(c) ==
  CASE c \in {"plan", "clarify"} -> {"Specification file not found"}
    [] c = "tasks"               -> {"Plan file not found"}
    [] c = "implement"           -> {"Tasks file not found"}
    [] OTHER                     -> {"No artifacts found"}

\* the handlers that look for their agents before they read the artifacts
AgentsCheckedFirst(c) ==
  c \in {"specify", "implement", "analyze", "checklist", "constitution"}

\* a dispatcher that always takes the automatic selection
SelectedAgents_ranked(c, agent_override) ==
  IF select_agents_for_command(c) = <<>> THEN get_generic_agent
  ELSE select_agents_for_command(c)

\* execute_command and the handler's prologue: the list handed on to
\* execute_with_fallback (<<>>: "No agents available")
SelectedAgents(c, agent_override) ==
  LET selected == IF agent_override # <<>> THEN agent_override
                  ELSE select_agents_for_command(c)
      again == IF selected = <<>> /\ c # "specify"
               THEN select_agents_for_command(c) ELSE selected
  IN  IF again = <<>> THEN get_generic_agent ELSE again

\* the locals of a finished call are gone
ClearLocals ==
  /\ candidates' = <<>>
  /\ i' = 0
  /\ attempt_number' = 0
  /\ pending' = {}
  /\ log' = <<>>
  /\ sleeps' = <<>>
  /\ error_details' = None
  /\ result' = None
  /\ raised' = None
  /\ cmd_raised' = None

\* the override lists _parse_agent_override can produce (<<>>: no override)
Overrides ==
  UNION {[1..n -> 1..Len(agents)] : n \in 0..MaxOverride}

\* REPLSession._execute_command up to the first generation call:
\* execute_command picks the agents, the handler checks its prerequisites and
\* enters execute_with_fallback.
ExecuteCommand(c, agent_override) ==
  /\ pc = "idle"
  /\ Len(state.completed_commands) < MaxHistory
  /\ cmd' = c
  /\ result' = None
  /\ IF ~PrerequisiteMet(c) \/ SelectedAgents(c, agent_override) = <<>>
     THEN /\ pc' = "raised"
          /\ cmd_raised' =
               Some(CommandExecutionError("CommandExecutionError",
                      IF SelectedAgents(c, agent_override) = <<>>
                         /\ (AgentsCheckedFirst(c) \/ PrerequisiteMet(c))
                      THEN {"No agents available"}
                      ELSE PrerequisiteError(c)))
          /\ candidates' = <<>>
          /\ UNCHANGED <<i, attempt_number, pending, log, sleeps,
                         error_details, raised>>
     ELSE /\ candidates' = SelectedAgents(c, agent_override)
          /\ Proceed(SelectedAgents(c, agent_override), 0, None, <<>>, {})
  /\ entry' = Some([state |-> state, file |-> file, artifacts |-> artifacts])
  /\ UNCHANGED <<succeeded, exit_code, agents_dir, trackerVars>>
  /\ UNCHANGED <<agents, enabled, state, file, artifacts, feature, faults>>

\* The pending attempt returns a text: execute_with_fallback returns
\* (agent, response).  Inside a command the handler goes on: it writes the
\* artifact file and calls generate_suggestions.
GenerateReturns(t) ==
  /\ pc \in {"Trying", "FallbackGeneric"}
  /\ result' = Some([agent_used |-> AgentAt(i), response |-> t])
  /\ IF cmd = "none"
     THEN /\ pc' = "Succeeded"
          /\ pending' = AwaitThenCall(pending, {<<i, attempt_number>>}, {})
          /\ log' = Append(log, Event("ok", i, AgentAt(i), attempt_number, t))
          /\ UNCHANGED <<i, attempt_number, sleeps, error_details, artifacts,
                         feature>>
     ELSE /\ pc' = "suggest"
          /\ FrameGone
          /\ pending' = AwaitThenCall(pending, {<<i, attempt_number>>},
                                      {SuggestCall})
          /\ artifacts' = ArtifactsAfterWrite(artifacts, cmd)
          /\ feature' = [plan_file |-> feature.plan_file \/ cmd = "plan",
                         tasks_file |-> feature.tasks_file \/ cmd = "tasks"]
  /\ UNCHANGED <<sessionVars, trackerVars>>
  /\ UNCHANGED <<agents, enabled, candidates, raised, cmd, state, file,
                 cmd_raised, faults>>

\* generate_suggestions raises: the handler is left, execute_command wraps
\* the error.
SuggestionsFail(e) ==
  /\ pc = "suggest"
  /\ faults < MaxFaults
  /\ faults' = faults + 1
  /\ pc' = "raised"
  /\ pending' = AwaitThenCall(pending, {SuggestCall}, {})
  /\ cmd_raised' = Some(CommandExecutionError("ProviderError", e))
  /\ UNCHANGED <<sessionVars, trackerVars>>
  /\ UNCHANGED <<agents, enabled, candidates, i, attempt_number, log, sleeps,
                 error_details, result, raised, cmd, state, file, artifacts,
                 feature>>

\* generate_suggestions returns: the handler's "Update state" block.  With
\* ok the state file is written and the handler returns its result; without,
\* write_json raises StateSaveError out of record_command.
UpdateState(ok) ==
  /\ pc = "suggest"
  /\ ok \/ faults < MaxFaults
  /\ faults' = IF ok THEN faults ELSE faults + 1
  /\ pending' = AwaitThenCall(pending, {SuggestCall}, {})
  /\ LET phased == [state EXCEPT !.current_phase = PhaseAfter(cmd, @)]
         recorded == record_command(phased, cmd, now(state, file))
     IN  /\ file' = write_json(file, ToDocument(recorded), ok)
         /\ state' = IF ok
                     THEN [recorded EXCEPT
                             !.suggested_next = SuggestedAfter(cmd, @)]
                     ELSE recorded
  /\ pc' = IF ok THEN "returned" ELSE "raised"
  /\ cmd_raised' =
       IF ok THEN None
       ELSE Some(CommandExecutionError("StateSaveError", {"Failed to write"}))
  /\ succeeded' = IF ok THEN succeeded + 1 ELSE succeeded
  /\ UNCHANGED <<entry, exit_code, agents_dir, trackerVars>>
  /\ UNCHANGED <<agents, enabled, candidates, i, attempt_number, log, sleeps,
                 error_details, result, raised, cmd, artifacts, feature>>

\* _execute_command after a successful result: "Refresh state" reloads the
\* state from disk.
ReplReload ==
  /\ pc = "returned"
  /\ state' = load_state(file, now(FreshState(0), file))
  /\ pc' = "idle"
  /\ cmd' = "none"
  /\ ClearLocals
  /\ entry' = None
  /\ UNCHANGED <<succeeded, exit_code, agents_dir, trackerVars>>
  /\ UNCHANGED <<agents, enabled, file, artifacts, feature, faults>>

\* A caller of CommandExecutor.execute_command other than the REPL: it takes
\* the result and goes on with the state object it passed in.
KeepState ==
  /\ pc = "returned"
  /\ pc' = "idle"
  /\ cmd' = "none"
  /\ ClearLocals
  /\ entry' = None
  /\ UNCHANGED <<succeeded, exit_code, agents_dir, trackerVars>>
  /\ UNCHANGED <<agents, enabled, state, file, artifacts, feature, faults>>

\* _execute_command's except clause: the error is printed.
ReplShowError ==
  /\ pc = "raised"
  /\ pc' = "idle"
  /\ cmd' = "none"
  /\ ClearLocals
  /\ entry' = None
  /\ UNCHANGED <<succeeded, exit_code, agents_dir, trackerVars>>
  /\ UNCHANGED <<agents, enabled, state, file, artifacts, feature, faults>>

\* the exit codes: sys.exit(0) in REPLSession.start's except clause, and the
\* values main returns
ReplInterruptExit == 0
MainOk == 0
MainInterrupted == 130
MainFatal == 1

\* AgentDefinitionError(f"Agents directory not found: ...")
AgentDefinitionError == [type |-> "AgentDefinitionError"]

\* AgentManager._load_agents on the directory dir: raises when the directory
\* does not exist, else appends the definition of every file that
\* _load_agent can parse, in glob order, and skips the others (None)
load_agents(dir) ==
  IF dir = None THEN [raised |-> Some(AgentDefinitionError), agents |-> <<>>]
  ELSE [raised |-> None,
        agents |-> LET parsed == SelectSeq(Get(dir), LAMBDA f : f # None)
                   IN  [k \in 1..Len(parsed) |-> Get(parsed[k])]]

\* the directory the catalog was loaded from: one parseable file per agent
DirectoryOf(catalog) == Some([k \in 1..Len(catalog) |-> Some(catalog[k])])

\* Ctrl+C at the prompt or while a generation call is awaited: asyncio.run
\* cancels the command, KeyboardInterrupt reaches REPLSession.start, which
\* leaves the session; the locals of the cancelled calls are gone.
Interrupt ==
  /\ pc \in {"idle", "Trying", "FallbackGeneric", "suggest"}
  /\ cmd # "none" \/ pc = "idle"
  /\ pc' = "exited"
  /\ exit_code' = Some(ReplInterruptExit)
  /\ ClearLocals
  /\ UNCHANGED <<succeeded, entry, agents_dir, trackerVars>>
  /\ UNCHANGED <<agents, enabled, cmd, state, file, artifacts, feature, faults>>

\* the REPL built-in `exit`: running = False, start returns, main returns 0
Exit ==
  /\ pc = "idle"
  /\ pc' = "exited"
  /\ exit_code' = Some(MainOk)
  /\ ClearLocals
  /\ UNCHANGED <<succeeded, entry, agents_dir, trackerVars>>
  /\ UNCHANGED <<agents, enabled, cmd, state, file, artifacts, feature, faults>>

\* a start that finds the flags of the session before
main_keepFlags ==
  /\ pc = "exited"
  /\ load_agents(agents_dir).raised = None
  /\ ClearLocals
  /\ cmd' = "none"
  /\ succeeded' = 0
  /\ entry' = None
  /\ pc' = "idle"
  /\ exit_code' = None
  /\ agents' = load_agents(agents_dir).agents
  /\ enabled' = IF Len(enabled) = Len(load_agents(agents_dir).agents)
                THEN enabled
                ELSE [k \in 1..Len(load_agents(agents_dir).agents) |-> TRUE]
  /\ feature' = [plan_file |-> "plan.md" \in artifacts,
                 tasks_file |-> "tasks.md" \in artifacts]
  /\ state' = load_state(file, now(FreshState(0), file))
  /\ UNCHANGED <<file, artifacts, faults, agents_dir, trackerVars>>

\* cli.main in a new process: REPLSession(config) builds the CommandExecutor
\* and its AgentManager, start() detects the feature and loads the state.  An
\* exception of the construction is caught by main, which returns 1.
main ==
  /\ pc = "exited"
  /\ ClearLocals
  /\ cmd' = "none"
  /\ succeeded' = 0
  /\ entry' = None
  /\ IF load_agents(agents_dir).raised # None
     THEN /\ pc' = "exited"
          /\ exit_code' = Some(MainFatal)
          /\ agents' = <<>>
          /\ enabled' = <<>>
          /\ UNCHANGED <<state, feature>>
     ELSE /\ pc' = "idle"
          /\ exit_code' = None
          /\ agents' = load_agents(agents_dir).agents
          /\ enabled' = [k \in 1..Len(load_agents(agents_dir).agents) |-> TRUE]
          /\ feature' = [plan_file |-> "plan.md" \in artifacts,
                         tasks_file |-> "tasks.md" \in artifacts]
          /\ state' = load_state(file, now(FreshState(0), file))
  /\ UNCHANGED <<file, artifacts, faults, agents_dir, trackerVars>>

\* the REPL built-in `refresh`: detect_feature and load_state
Refresh ==
  /\ pc = "idle"
  /\ feature' = [plan_file |-> "plan.md" \in artifacts,
                 tasks_file |-> "tasks.md" \in artifacts]
  /\ state' = load_state(file, now(FreshState(0), file))
  /\ UNCHANGED <<sessionVars, trackerVars>>
  /\ UNCHANGED <<agents, enabled, pc, ewfVars, cmd, file, artifacts, cmd_raised,
                 faults>>

\* AgentManager.get_agent_by_name: the first agent of that name, compared in
\* lower case, or None
get_agent_by_name(agent_name) ==
  LET named == {k \in 1..Len(agents) : Lower(agents[k].name) = Lower(agent_name)}
  IN  IF named = {} THEN None
      ELSE Some(CHOOSE k \in named : \A m \in named : k <= m)

\* a switch that sets the flag of every agent of that name
SetFlag_everyMatch(flags, agent_name, flag) ==
  [k \in DOMAIN flags |->
     IF Lower(agents[k].name) = Lower(agent_name) THEN flag ELSE flags[k]]

\* the loop of enable_agent / disable_agent on the flags given: the first
\* agent of that name, compared in lower case, gets the flag
SetFlag(flags, agent_name, flag) ==
  LET named == {k \in 1..Len(agents) : Lower(agents[k].name) = Lower(agent_name)}
  IN  IF named = {} THEN flags
      ELSE [flags EXCEPT ![CHOOSE k \in named : \A m \in named : k <= m] = flag]

\* what enable_agent / disable_agent return: an agent of that name was found
AgentFound(agent_name) ==
  \E k \in 1..Len(agents) : Lower(agents[k].name) = Lower(agent_name)

\* enable_agent / disable_agent on the flags of the catalog
SetEnabled(agent_name, flag) == SetFlag(enabled, agent_name, flag)

\* AgentManager.enable_agent(agent_name)
enable_agent(agent_name) ==
  /\ pc = "idle"
  /\ enabled' = SetEnabled(agent_name, TRUE)
  /\ UNCHANGED <<agents, pc, ewfVars, wfVars, faults, sessionVars, trackerVars>>

\* AgentManager.disable_agent(agent_name)
disable_agent(agent_name) ==
  /\ pc = "idle"
  /\ enabled' = SetEnabled(agent_name, FALSE)
  /\ UNCHANGED <<agents, pc, ewfVars, wfVars, faults, sessionVars, trackerVars>>

(***************************************************************************)
(* Specifications.                                                         *)
(***************************************************************************)
StartWith(catalogs, st) ==
  /\ agents \in catalogs
  /\ agents_dir = DirectoryOf(agents)
  /\ exit_code = None
  /\ faults = 0
  /\ enabled = [k \in 1..Len(agents) |-> TRUE]
  /\ pc = "idle"
  /\ candidates = <<>>
  /\ i = 0
  /\ attempt_number = 0
  /\ pending = {}
  /\ log = <<>>
  /\ sleeps = <<>>
  /\ error_details = None
  /\ result = None
  /\ raised = None
  /\ cmd = "none"
  /\ file = None
  /\ artifacts = {}
  /\ feature = [plan_file |-> FALSE, tasks_file |-> FALSE]
  /\ state = st
  /\ cmd_raised = None
  /\ succeeded = 0
  /\ entry = None
  /\ wj = NoCall
  /\ temp_file = None
  /\ loaded = None

\* REPLSession.start: no state file yet, load_state builds a fresh state
Start(catalogs) ==
  StartWith(catalogs, load_state(None, now(FreshState(0), None)))

\* the agent directories of the REPL sessions the model runs
SessionCatalogs == { <<archie, generic>> }

\* the errors the generation capability raises in those sessions
SessionErrors == { {"timeout"}, {"401"} }

Init == Start(SessionCatalogs)

\* the steps of a command, from the prompt to the result or the error
NextCommand ==
  \/ \E c \in CommandType : \E ov \in Overrides : ExecuteCommand(c, ov)
  \/ \E e \in SessionErrors : AttemptFails(e)
  \/ \E e \in SessionErrors : AgentExhausted(e)
  \/ \E t \in Texts : GenerateReturns(t)
  \/ \E e \in SessionErrors : SuggestionsFail(e)
  \/ \E ok \in BOOLEAN : UpdateState(ok)
  \/ ReplReload
  \/ ReplShowError
  \/ Refresh

\* the REPL session
Next ==
  \/ NextCommand
  \/ Interrupt
  \/ Exit

Spec == Init /\ [][Next]_vars

\* the command dispatcher under any caller: the REPL, or one that keeps the
\* state object across commands
NextDispatcher ==
  \/ NextCommand
  \/ KeepState

SpecDispatcher == Init /\ [][NextDispatcher]_vars

\* one direct call of execute_with_fallback
CandidateLists ==
  UNION {[1..n -> 1..Len(agents)] : n \in 0..MaxCandidates}

NextFallback ==
  \/ \E cands \in CandidateLists : InvokeFallback(cands)
  \/ \E e \in ProviderErrors : AttemptFails(e)
  \/ \E e \in ProviderErrors : AgentExhausted(e)
  \/ \E t \in Texts : GenerateReturns(t)

InitFallback == Start(Catalogs)

SpecFallback == InitFallback /\ [][NextFallback]_vars

\* a pending generation call returns or raises
Responds ==
  \/ \E e \in ProviderErrors : AttemptFails(e)
  \/ \E e \in ProviderErrors : AgentExhausted(e)
  \/ \E t \in Texts : GenerateReturns(t)

\* execute_with_fallback under a provider whose every call comes to an end
SpecFallbackLive == SpecFallback /\ WF_vars(Responds)

\* commands given with override lists of up to MaxCandidates agents, in
\* sessions where agents are switched off and on and that are left and
\* started again
NextOverride ==
  \/ \E c \in {"specify", "plan"} : \E ov \in CandidateLists :
       ExecuteCommand(c, ov)
  \/ AttemptFails({"timeout"})
  \/ AgentExhausted({"timeout"})
  \/ GenerateReturns("text_a")
  \/ SuggestionsFail({"timeout"})
  \/ \E ok \in BOOLEAN : UpdateState(ok)
  \/ ReplReload
  \/ ReplShowError
  \/ disable_agent("ARCHIE")
  \/ enable_agent("ARCHIE")
  \/ Exit
  \/ main

\* the agent directories of those sessions
OverrideCatalogs == { <<archie, stella, generic>>, <<archie, stella>> }

InitOverride == Start(OverrideCatalogs)

SpecOverride == InitOverride /\ [][NextOverride]_vars

\* a REPL session in which the user switches the generic agent off and on
\* between commands
NextGeneric ==
  \/ \E c \in {"specify", "plan"} : \E ov \in Overrides : ExecuteCommand(c, ov)
  \/ AttemptFails({"timeout"})
  \/ AgentExhausted({"timeout"})
  \/ GenerateReturns("text_a")
  \/ \E ok \in BOOLEAN : UpdateState(ok)
  \/ ReplReload
  \/ ReplShowError
  \/ disable_agent("generic")
  \/ enable_agent("generic")

\* the agent directory of those sessions
GenericCatalogs == { <<archie, stella, generic>> }

InitGeneric == Start(GenericCatalogs)

SpecGeneric == InitGeneric /\ [][NextGeneric]_vars

\* the agent definition files a directory may hold: name, capabilities and
\* priority as the front matter gives them
Tags == {"architecture_design", "component_design"}
Priorities == {-5, -3, 0, 2}
AgentFiles ==
  { AgentDefinition(n, "specialist", caps, p) :
      n \in {"Archie", "stella"}, caps \in {{}, {"architecture_design"}, Tags},
      p \in Priorities }

\* the catalogs loaded from directories of up to MaxAgents files
SelectionCatalogs == UNION {[1..n -> AgentFiles] : n \in 1..MaxAgents}

\* the names given to `agents enable` / `agents disable`
AgentNames == {"archie", "Stella", "nobody"}

InitSelection == Start(SelectionCatalogs)

NextSelection ==
  \/ \E n \in AgentNames : enable_agent(n)
  \/ \E n \in AgentNames : disable_agent(n)

SpecSelection == InitSelection /\ [][NextSelection]_vars

\* the definition files of the directories commands select their agents from
CommandFiles == {archie, stella, generic, helper, planner, backup}

\* the catalogs loaded from directories of up to MaxAgents such files
CommandCatalogs == UNION {[1..n -> CommandFiles] : n \in 0..MaxAgents}

\* the names given to `agents enable` / `agents disable` in those sessions
CommandAgentNames ==
  {"ARCHIE", "Stella", "generic", "helper", "planner", "backup", "nobody"}

InitCatalog == Start(CommandCatalogs)

\* a session that only switches agents on and off
NextCatalog ==
  \/ \E n \in CommandAgentNames : enable_agent(n)
  \/ \E n \in CommandAgentNames : disable_agent(n)

SpecCatalog == InitCatalog /\ [][NextCatalog]_vars

\* the *.md files of an agents directory: a definition that _load_agent can
\* parse, or None for a file it cannot
StartupFiles == {Some(f) : f \in CommandFiles} \cup {None}

\* the agents directories: None when the directory does not exist, else
\* its files in glob order
Directories ==
  {None} \cup {Some(d) : d \in UNION {[1..n -> StartupFiles] : n \in 0..MaxAgents}}

\* no process runs yet: nothing is loaded, no state file is written
InitStartup ==
  /\ agents_dir \in Directories
  /\ exit_code = None
  /\ agents = <<>>
  /\ enabled = <<>>
  /\ pc = "exited"
  /\ faults = 0
  /\ candidates = <<>>
  /\ i = 0
  /\ attempt_number = 0
  /\ pending = {}
  /\ log = <<>>
  /\ sleeps = <<>>
  /\ error_details = None
  /\ result = None
  /\ raised = None
  /\ cmd = "none"
  /\ file = None
  /\ artifacts = {}
  /\ feature = [plan_file |-> FALSE, tasks_file |-> FALSE]
  /\ state = FreshState(0)
  /\ cmd_raised = None
  /\ succeeded = 0
  /\ entry = None
  /\ wj = NoCall
  /\ temp_file = None
  /\ loaded = None

\* the process is started, agents are switched off and on, the session is
\* left and started again
NextStartup ==
  \/ main
  \/ \E n \in CommandAgentNames : enable_agent(n)
  \/ \E n \in CommandAgentNames : disable_agent(n)
  \/ Exit

SpecStartup == InitStartup /\ [][NextStartup]_vars

\* the values a caller has put into context_data
ContextDatas ==
  { <<>>,
    [k \in {"note"} |-> [type |-> "str", repr |-> "first draft"]],
    [k \in {"started"} |-> [type |-> "datetime", repr |-> "2024-01-01 09:00:00"]] }

\* the state objects the tracker is handed first
InitTracker ==
  \E cd \in ContextDatas : \E sn \in {None, Some("plan")} :
    StartWith(SessionCatalogs,
              [FreshState(1) EXCEPT !.context_data = cd, !.suggested_next = sn])

\* the callers of the workflow state tracker
NextTracker ==
  \/ \E c \in {"specify", "clarify"} : TrackerRecord(c)
  \/ \E phase \in {"specify", "plan"} : TrackerUpdatePhase(phase)
  \/ \E ok \in BOOLEAN : WriteJsonMkdir(ok)
  \/ \E ok \in BOOLEAN : WriteJsonOpen(ok)
  \/ \E ok \in BOOLEAN : WriteJsonDump(ok)
  \/ \E ok \in BOOLEAN : WriteJsonReplace(ok)
  \/ Crash
  \/ TrackerLoad

SpecTracker == InitTracker /\ [][NextTracker]_vars

(***************************************************************************)
(* Properties of execute_with_fallback, read off the trace of generation   *)
(* calls (log) of one invocation.                                          *)
(***************************************************************************)
\* the events of the trace at chain position p with kind ev
EventsAt(p, ev) == {k \in 1..Len(log) : log[k].i = p /\ log[k].ev = ev}

\* the catalog holds an agent of role generic; the first one in load order
GenericLoaded == \E k \in 1..Len(agents) : agents[k].role = "generic"
FirstGeneric ==
  CHOOSE k \in 1..Len(agents) :
    /\ agents[k].role = "generic"
    /\ \A m \in 1..(k - 1) : agents[m].role # "generic"

\* the generic agent is due as a fallback for the candidate list
FallbackDue ==
  GenericLoaded /\ \A k \in 1..Len(candidates) : candidates[k] # FirstGeneric

\* the fallback chain: the candidates, then the generic agent when it is due
Chain == IF FallbackDue THEN Append(candidates, FirstGeneric) ELSE candidates

\* position p used up its three attempts, each one failing
ExhaustedAt(p) ==
  /\ Cardinality(EventsAt(p, "start")) = 3
  /\ Cardinality(EventsAt(p, "fail")) = 3
  /\ EventsAt(p, "ok") = {}
  /\ \A n \in 1..3 :
       \E k \in EventsAt(p, "fail") :
         /\ log[k].attempt = n
         /\ log[k].agent = Chain[p]

\* C1: when execute_with_fallback returns (agent, text), the agent is the
\* first one of the chain candidates-then-generic whose call succeeded: every
\* position before it used up its attempts, the text is the text of that
\* agent's successful call, and that call is the last generation call made.
C1_FirstSuccessReturned ==
  result # None =>
    /\ log # <<>>
    /\ LET last == log[Len(log)]
       IN  /\ last.ev = "ok"
           /\ last.i \in 1..Len(Chain)
           /\ Get(result).agent_used = Chain[last.i]
           /\ last.agent = Get(result).agent_used
           /\ Get(result).response = last.text
           /\ \A p \in 1..(last.i - 1) : ExhaustedAt(p)
           /\ \A k \in 1..(Len(log) - 1) : log[k].ev # "ok"
    /\ pending = {}
    /\ raised = None

\* candidates [C1, C2] both failed and the generic agent G produced the result
C1_Witness ==
  /\ pc = "Succeeded"
  /\ Len(candidates) = 2
  /\ candidates[1] # candidates[2]
  /\ log[Len(log)].i = 3
  /\ Get(result).agent_used = FirstGeneric

\* C2: the generic agent is called as a fallback exactly when every explicit
\* candidate has failed (or there is none), a generic agent is loaded and it
\* is not in the candidate list; the fallback goes through the same three
\* attempts, and a generic agent that was a candidate is not tried again.
C2_GenericFallbackIff ==
  LET g == Len(candidates) + 1
      called == \E k \in 1..Len(log) : log[k].i = g
  IN  /\ called =>
            /\ FallbackDue
            /\ \A p \in 1..Len(candidates) : ExhaustedAt(p)
            /\ \A k \in 1..Len(log) : log[k].i = g => log[k].agent = FirstGeneric
            /\ Cardinality(EventsAt(g, "start")) \in 1..3
      /\ (pc \in {"Succeeded", "Failed"}
           /\ FallbackDue
           /\ \A p \in 1..Len(candidates) : ExhaustedAt(p)) => called
      /\ (pc = "Failed" /\ called) => ExhaustedAt(g)
      /\ \A k \in 1..Len(log) : log[k].i <= g

\* the generic agent runs as the fallback of two failed candidates
C2_Witness ==
  /\ pc = "FallbackGeneric"
  /\ Len(candidates) = 2
  /\ attempt_number = 3

\* C3: execute_with_fallback raises only when every candidate and, when it
\* is due, the generic fallback have each used up three failing attempts.
C3_FailedOnlyWhenAllExhausted ==
  raised # None =>
    /\ \A p \in 1..Len(Chain) : ExhaustedAt(p)
    /\ \A k \in 1..Len(log) : log[k].ev # "ok"
    /\ result = None
    /\ pending = {}

\* two candidates and the generic fallback all failed
C3_Witness ==
  /\ pc = "Failed"
  /\ Len(candidates) = 2
  /\ FallbackDue

\* the attempts at position p are numbered 1, 2, ... without a gap, a failed
\* attempt below the third is followed by the next one, and nothing follows
\* the third failure or a success
RetriedAt(p) ==
  /\ Cardinality(EventsAt(p, "start")) \in 1..3
  /\ \A k \in EventsAt(p, "start") :
       /\ log[k].attempt \in 1..3
       /\ \A m \in EventsAt(p, "start") : log[m].attempt = log[k].attempt => m = k
       /\ log[k].attempt > 1 =>
            /\ k > 1
            /\ log[k - 1] = [log[k] EXCEPT !.ev = "fail", !.attempt = @ - 1]
  /\ \A k \in EventsAt(p, "fail") :
       IF log[k].attempt < 3
       THEN /\ k < Len(log)
            /\ log[k + 1] = [log[k] EXCEPT !.ev = "start", !.attempt = @ + 1]
       ELSE \A m \in (k + 1)..Len(log) : log[m].i # p
  /\ \A k \in EventsAt(p, "ok") : k = Len(log)

\* the chain positions tried so far
Tried == {log[k].i : k \in 1..Len(log)}

\* the generation calls made with agent a
CallsWith(a) == {k \in 1..Len(log) : log[k].ev = "start" /\ log[k].agent = a}

\* C4 as claimed: every agent tried gets between one and three generation
\* calls in one invocation.
C4_CallsPerAgent ==
  \A a \in 1..Len(agents) : Cardinality(CallsWith(a)) <= 3

\* C4: every entry of the chain that is tried (a position of the candidate
\* list, or the generic fallback) gets between one and three generation
\* calls: a failing attempt below the third is retried, the entry is given
\* up after the third failure, and nothing is called for it after a success.
C4_CallsPerEntry ==
  /\ \A p \in Tried : p \in 1..Len(Chain) /\ RetriedAt(p)
  /\ \A p \in Tried : p < i => ExhaustedAt(p)
  /\ pc \in {"Trying", "FallbackGeneric"} =>
       /\ attempt_number \in 1..3
       /\ Cardinality(EventsAt(i, "start")) = attempt_number
       /\ Cardinality(EventsAt(i, "fail")) = attempt_number - 1

\* an agent listed twice is in its fifth call
C4_Witness ==
  /\ pc = "Trying"
  /\ Len(candidates) = 2
  /\ candidates[1] = candidates[2]
  /\ i = 2
  /\ attempt_number = 2
  /\ Cardinality(CallsWith(candidates[1])) = 5

\* C5: the candidates are tried one after the other: at most one generation
\* call is pending, the call pending is the last one started, and the first
\* attempt of a position starts right after the third failure of the
\* position before it.
C5_Sequential ==
  /\ Cardinality(pending) <= 1
  /\ pc \in {"Trying", "FallbackGeneric"} =>
       /\ pending = {<<i, attempt_number>>}
       /\ log[Len(log)].ev = "start"
       /\ log[Len(log)].i = i
       /\ log[Len(log)].attempt = attempt_number
  /\ \A k \in 1..Len(log) :
       /\ k > 1 => log[k].i >= log[k - 1].i
       /\ (log[k].ev = "start" /\ log[k].attempt = 1) =>
            IF log[k].i = 1 THEN k = 1
            ELSE /\ k > 1
                 /\ log[k - 1].ev = "fail"
                 /\ log[k - 1].attempt = 3
                 /\ log[k - 1].i = log[k].i - 1
       /\ (log[k].ev = "start" /\ k < Len(log)) =>
            /\ log[k + 1].ev \in {"fail", "ok"}
            /\ log[k + 1].i = log[k].i
            /\ log[k + 1].attempt = log[k].attempt

\* the first attempt of the second candidate is pending
C5_Witness ==
  /\ pc = "Trying"
  /\ i = 2
  /\ attempt_number = 1
  /\ pending = {<<2, 1>>}

\* the fragments that mark an authentication / a rate-limit error
AuthMarked(msg) ==
  msg \cap {"authentication", "Authentication", "api key", "API key", "401"} # {}
RateMarked(msg) == msg \cap {"rate limit", "Rate limit", "429"} # {}

\* the three messages execute_with_fallback raises
Classes ==
  {"Authentication failed", "Rate limit exceeded", "All agents failed to execute"}

\* C6: the error raised when every agent failed is classified by its text:
\* authentication when the text holds an authentication marker, else rate
\* limit when it holds a rate-limit marker, else all-agents-failed; exactly
\* one of the three is raised, and it carries the text.
C6_Classified ==
  raised # None =>
    LET msg == IF error_details = None THEN {"None"} ELSE Get(error_details)
        class == IF AuthMarked(msg) THEN "Authentication failed"
                 ELSE IF RateMarked(msg) THEN "Rate limit exceeded"
                 ELSE "All agents failed to execute"
    IN  /\ Get(raised).type = "AgentExecutionError"
        /\ Get(raised).message \cap Classes = {class}
        /\ msg \subseteq Get(raised).message

\* the last error holds both markers and is classified as authentication
C6_Witness ==
  /\ pc = "Failed"
  /\ error_details # None
  /\ {"401", "429"} \subseteq Get(error_details)
  /\ "Authentication failed" \in Get(raised).message

(***************************************************************************)
(* Properties of the workflow state under the command dispatcher.          *)
(***************************************************************************)
IsPrefix(s, t) == Len(s) <= Len(t) /\ \A k \in 1..Len(s) : s[k] = t[k]

\* the history held by the state file
FileHistory(f) ==
  IF f = None THEN <<>> ELSE FromDocument(Get(f)).completed_commands

\* the step in which a handler runs record_command: it returns, or the save
\* raises StateSaveError
RecordStep ==
  /\ pc = "suggest"
  /\ \/ pc' = "returned"
     \/ /\ pc' = "raised"
        /\ cmd_raised' # None
        /\ Get(cmd_raised').cause = "StateSaveError"

\* the step in which a handler returns success
SuccessStep == pc = "suggest" /\ pc' = "returned"

\* the step in which the caller takes the result of a successful command
ResultTakenStep == pc = "returned" /\ pc' = "idle"

\* the REPL built-in `refresh`, which replaces the state object by the one
\* the state file holds
RefreshStep == pc = "idle" /\ pc' = "idle"

\* C7: record_command appends: the history grows by exactly one record, the
\* new last record holds the command, the records before it keep their
\* value and position; no step of the tracker or the dispatcher removes,
\* changes or reorders a record of the state object (the `refresh` built-in
\* replaces the object), nor a record of the state file.
C7_AppendOnly ==
  [][ /\ RecordStep =>
           /\ Len(state'.completed_commands) = Len(state.completed_commands) + 1
           /\ state'.completed_commands[Len(state'.completed_commands)].command = cmd
           /\ \A k \in 1..Len(state.completed_commands) :
                state'.completed_commands[k] = state.completed_commands[k]
      /\ ~RecordStep /\ ~RefreshStep =>
           state'.completed_commands = state.completed_commands
      /\ IsPrefix(FileHistory(file), FileHistory(file'))
    ]_vars

\* a second record has been appended behind the first
C7_Witness ==
  /\ pc = "returned"
  /\ Len(state.completed_commands) = 2
  /\ state.completed_commands[2].command = cmd
  /\ FileHistory(file) = state.completed_commands

C10_DiskAgreesWithMemory ==
  pc = "returned" =>
    /\ file # None
    /\ FromDocument(Get(file)).current_phase = state.current_phase
    /\ FromDocument(Get(file)).completed_commands = state.completed_commands
    /\ FromDocument(Get(file)).suggested_next = state.suggested_next

\* specify has returned: the state object suggests plan, the state file
\* written by record_command holds no suggestion
C10_Witness ==
  /\ pc = "returned"
  /\ cmd = "specify"
  /\ state.suggested_next = Some("plan")
  /\ file # None
  /\ FromDocument(Get(file)).suggested_next = None
  /\ FromDocument(Get(file)).completed_commands = state.completed_commands

(***************************************************************************)
(* Properties of a REPL session: records, artifacts and failed commands.   *)
(***************************************************************************)
\* C11 as claimed: in every state the history, in the state object and in
\* the state file, holds as many records as commands returned success.
C11_RecordsEqualSuccesses ==
  /\ Len(state.completed_commands) = succeeded
  /\ Len(FileHistory(file)) = succeeded

\* a command whose save failed left its record in the state object, and the
\* next successful command wrote it to the state file
C11_Witness ==
  /\ pc = "returned"
  /\ succeeded = 1
  /\ Len(state.completed_commands) = 2
  /\ Len(FileHistory(file)) = 2

\* C12: a record is appended and saved only after the artifact of its
\* command has been written: every record of the history, in the state file
\* and in the state object, names a command whose artifact file exists.
C12_ArtifactBeforeRecord ==
  /\ \A k \in 1..Len(FileHistory(file)) :
       ArtifactOf(FileHistory(file)[k].command) \in artifacts
  /\ \A k \in 1..Len(state.completed_commands) :
       ArtifactOf(state.completed_commands[k].command) \in artifacts

\* two commands are recorded in the state file and both artifacts exist
C12_Witness ==
  /\ pc = "returned"
  /\ Len(FileHistory(file)) = 2
  /\ FileHistory(file)[1].command # FileHistory(file)[2].command
  /\ \A k \in 1..2 : ArtifactOf(FileHistory(file)[k].command) \in artifacts

\* the command has ended without success: it raised, or it was interrupted
CommandFailed == entry # None /\ pc \in {"raised", "exited"} /\ cmd # "none"

\* C13 as claimed: a command that ends without success leaves its artifact
\* file unwritten and the workflow state as it was, in the state object and
\* in the state file.
C13_FailureLeavesNothing ==
  CommandFailed =>
    /\ artifacts = Get(entry).artifacts
    /\ state = Get(entry).state
    /\ file = Get(entry).file

\* generate_suggestions raised after the artifact of the command was written
C13_Witness ==
  /\ CommandFailed
  /\ pc = "raised"
  /\ Get(cmd_raised).cause = "ProviderError"
  /\ ArtifactOf(cmd) \in artifacts
  /\ ArtifactOf(cmd) \notin Get(entry).artifacts
  /\ state = Get(entry).state

(***************************************************************************)
(* Properties of the workflow state tracker: save and load.                *)
(***************************************************************************)
\* C14: at every point of a save, a failure or a crash at any step
\* included, the state file holds the complete document it held before the
\* save or the complete new one, never a part of one: it is the previous
\* one until the rename and the new one after it; a failed save leaves the
\* previous document and raises StateSaveError; a reader never fails on a
\* half-written state file.
C14_CrashSafeSave ==
  /\ file # None => ~IsTruncated(Get(file))
  /\ wj.pc \in {"mkdir", "open", "dump", "replace", "raised"} =>
       file = wj.before
  /\ wj.pc = "done" => file = Some(json_dump(wj.data))
  /\ loaded # Some(StateLoadError)

\* the process died between the write of the temporary file and the rename:
\* the temporary file is half written, the state file is the previous one
C14_Witness ==
  /\ pc = "crashed"
  /\ wj.pc = "dump"
  /\ temp_file # None
  /\ IsTruncated(Get(temp_file))
  /\ wj.before # None
  /\ file = wj.before
  /\ file # Some(json_dump(wj.data))

C16_LoadWithoutFile ==
  [][ (file = None /\ loaded' # loaded) =>
        /\ loaded' # Some(StateLoadError)
        /\ Get(loaded').feature_id = FeatureId
        /\ Get(loaded').current_phase = "draft"
        /\ Get(loaded').completed_commands = <<>>
        /\ Get(loaded').suggested_next = None
        /\ file' = None
        /\ temp_file' = temp_file
    ]_vars

\* a load has returned while no state file exists, although the state
\* object of the caller that is saving has moved on
C16_Witness ==
  /\ file = None
  /\ loaded # None
  /\ Get(loaded).current_phase = "draft"
  /\ state.completed_commands # <<>>

(***************************************************************************)
(* Properties of agent scoring and selection.                              *)
(***************************************************************************)
\* the required capability sets and the limits asked for
RequiredSets == SUBSET Tags
Limits == 0..(DefaultMaxAgents + 1)

\* the loaded agents, the enabled ones that have every required capability
Loaded == 1..Len(agents)
EnabledMatching(R) ==
  {k \in Loaded : enabled[k] /\ R \subseteq agents[k].capabilities}

\* C17 as claimed: for every agent and every required set the score is
\* positive exactly when the agent matches; no agent that does not match is
\* in a ranked list, and no matching enabled agent is dropped by the filter
\* on the score.
C17_ScorePositiveIffMatches ==
  \A R \in RequiredSets :
    /\ \A k \in Loaded :
         score_for_task(agents[k], R) > 0 <=> R \subseteq agents[k].capabilities
    /\ \A k \in Range(select_agents(R, Len(agents))) :
         R \subseteq agents[k].capabilities
    /\ EnabledMatching(R) \subseteq Range(select_agents(R, Len(agents)))

\* an enabled agent of priority 0 with more than the required capabilities
\* has score 0 and is in no ranked list
C17_Witness ==
  \E k \in Loaded :
    /\ enabled[k]
    /\ agents[k].priority = 0
    /\ agents[k].capabilities = Tags
    /\ score_for_task(agents[k], {"architecture_design"}) = 0
    /\ k \notin Range(select_agents({"architecture_design"}, Len(agents)))

\* C18: the score is priority + 5 for an agent whose capabilities are
\* exactly the required ones, the priority for an agent that has them and
\* more, and 0 for an agent that lacks one of them.
C18_ScoreValues ==
  \A R \in RequiredSets : \A k \in Loaded :
    LET caps == agents[k].capabilities
        score == score_for_task(agents[k], R)
    IN  /\ caps = R => score = agents[k].priority + 5
        /\ (R \subseteq caps /\ caps # R) => score = agents[k].priority
        /\ ~(R \subseteq caps) => score = 0

\* a catalog with an agent without capabilities and an agent of negative
\* priority that has exactly both tags
C18_Witness ==
  /\ Len(agents) = 2
  /\ agents[1].capabilities = {}
  /\ agents[2].capabilities = Tags
  /\ agents[2].priority = -3
  /\ score_for_task(agents[1], Tags) = 0
  /\ score_for_task(agents[2], Tags) = 2
  /\ score_for_task(agents[2], {"component_design"}) = -3

\* C19 as claimed: after any enable / disable calls select_agents returns a
\* list without duplicates, of enabled matching agents only, as long as the
\* limit or the number of enabled matching agents, whichever is less.
C19_SelectManyEnabledOnly ==
  \A R \in RequiredSets : \A limit \in Limits :
    LET L == select_agents(R, limit)
    IN  /\ \A a, b \in 1..Len(L) : L[a] = L[b] => a = b
        /\ Range(L) \subseteq EnabledMatching(R)
        /\ Len(L) = Min(limit, Cardinality(EnabledMatching(R)))
        /\ DefaultMaxAgents = 3

\* one of two matching agents is disabled, the other has a score of 0: the
\* list is empty
C19_Witness ==
  /\ Len(agents) = 2
  /\ ~enabled[1]
  /\ enabled[2]
  /\ Tags \subseteq agents[1].capabilities
  /\ agents[1].priority = 2
  /\ Tags \subseteq agents[2].capabilities
  /\ agents[2].priority = -5
  /\ select_agents(Tags, 3) = <<>>

\* agent a ranks no lower than agent b for the required set
RanksNoLower(a, b, R) ==
  \/ score_for_task(agents[a], R) > score_for_task(agents[b], R)
  \/ /\ score_for_task(agents[a], R) = score_for_task(agents[b], R)
     /\ agents[a].priority >= agents[b].priority

\* C20: the list of select_agents is in order of non-increasing score and,
\* for equal scores, non-increasing priority; an agent cut off by the limit
\* ranks no higher than any agent kept; select_agent returns an agent that
\* ranks no lower than any agent of positive score, or None when no agent
\* has a positive score.
C20_RankingOrder ==
  \A R \in RequiredSets :
    LET scoring == {k \in Loaded : score_for_task(agents[k], R) > 0}
    IN  /\ \A limit \in Limits :
             LET L == select_agents(R, limit)
             IN  /\ \A a, b \in 1..Len(L) : a < b => RanksNoLower(L[a], L[b], R)
                 /\ \A out \in {k \in scoring : enabled[k]} \ Range(L) :
                      \A kept \in Range(L) : RanksNoLower(kept, out, R)
        /\ IF scoring = {} THEN select_agent(R) = None
           ELSE /\ select_agent(R) # None
                /\ Get(select_agent(R)) \in scoring
                /\ \A k \in scoring : RanksNoLower(Get(select_agent(R)), k, R)

\* two agents have the same score, the second loaded has the higher
\* priority: it is ranked first, and a limit of 1 keeps it alone
C20_Witness ==
  /\ Len(agents) = 2
  /\ enabled[1] /\ enabled[2]
  /\ score_for_task(agents[1], {"architecture_design"}) = 2
  /\ score_for_task(agents[2], {"architecture_design"}) = 2
  /\ agents[1].priority < agents[2].priority
  /\ select_agents({"architecture_design"}, 3) = <<2, 1>>
  /\ select_agents({"architecture_design"}, 1) = <<2>>
  /\ select_agent({"architecture_design"}) = Some(2)

(***************************************************************************)
(* Properties of the selection for a command.                              *)
(***************************************************************************)
\* the loaded agents with role generic
Generics == {k \in Loaded : agents[k].role = "generic"}

\* C21: for a command without required capabilities (specify, clarify)
\* select_agents_for_command returns the one-element list of the first
\* loaded agent with role generic, whatever the enabled flags are, and the
\* empty list when no agent with role generic is loaded.
C21_GenericForEmptyRequired ==
  \A c \in {"specify", "clarify"} :
    LET L == select_agents_for_command(c)
    IN  IF Generics = {} THEN L = <<>>
        ELSE /\ Len(L) = 1
             /\ L[1] \in Generics
             /\ \A m \in Generics : L[1] <= m

\* two agents with role generic are loaded and the first is disabled: it is
\* still the one returned for specify
C21_Witness ==
  /\ Len(agents) = 2
  /\ Generics = {1, 2}
  /\ ~enabled[1]
  /\ enabled[2]
  /\ select_agents_for_command("specify") = <<1>>
  /\ select_agents_for_command("clarify") = <<1>>

\* the commands that require capabilities
Specialised == {c \in CommandType : COMMAND_CAPABILITIES(c) # {}}

\* C22: for a command with required capabilities select_agents_for_command
\* returns the list of select_agents (default limit) when that list is not
\* empty, otherwise the one-element list of the generic agent when one is
\* loaded, otherwise the empty list; for the catalog of archie (both design
\* capabilities, priority 2) and generic, as loaded, plan gets [archie].
C22_SpecialistsElseGeneric ==
  /\ \A c \in Specialised :
        LET L == select_agents_for_command(c)
            ranked == select_agents(COMMAND_CAPABILITIES(c), DefaultMaxAgents)
        IN  IF ranked # <<>> THEN L = ranked
            ELSE IF Generics = {} THEN L = <<>>
            ELSE /\ Len(L) = 1
                 /\ L[1] \in Generics
                 /\ \A m \in Generics : L[1] <= m
  /\ \A a, g \in Loaded :
        ( /\ Len(agents) = 2
          /\ agents[a] = archie
          /\ agents[g] = generic
          /\ enabled[a] /\ enabled[g] )
        => select_agents_for_command("plan") = <<a>>

\* the catalog of archie and generic as loaded: plan gets archie, tasks,
\* which no enabled agent matches, gets generic
C22_Witness ==
  /\ agents = <<archie, generic>>
  /\ enabled = <<TRUE, TRUE>>
  /\ select_agents(COMMAND_CAPABILITIES("plan"), DefaultMaxAgents) = <<1>>
  /\ select_agents_for_command("plan") = <<1>>
  /\ select_agents(COMMAND_CAPABILITIES("tasks"), DefaultMaxAgents) = <<>>
  /\ select_agents_for_command("tasks") = <<2>>

\* the required sets select_agent is asked for: those of the commands and
\* the subsets of the design capabilities
AskedSets == RequiredSets \cup {COMMAND_CAPABILITIES(c) : c \in CommandType}

\* C23: select_agent does not depend on the enabled flags: for every
\* required set, no step of a session changes the agent it returns, so after
\* any sequence of enable / disable calls it returns the agent it returned
\* before.
C23_SelectOneIgnoresEnabled ==
  [][\A R \in AskedSets : select_agent(R)' = select_agent(R)]_vars

\* select_agent returns an agent that is disabled, while the ranked list of
\* the enabled agents starts with another one
C23_Witness ==
  \E k, m \in Loaded :
    /\ k # m
    /\ ~enabled[k]
    /\ enabled[m]
    /\ select_agent(Tags) = Some(k)
    /\ select_agents(Tags, DefaultMaxAgents) = <<m>>

(***************************************************************************)
(* Properties of enable_agent / disable_agent.                             *)
(***************************************************************************)
\* the step enable_agent (flag TRUE) or disable_agent (flag FALSE)
Switch(n, flag) == IF flag THEN enable_agent(n) ELSE disable_agent(n)

\* the loaded agents whose name is n, letter case aside
Called(n) == {k \in Loaded : Lower(agents[k].name) = Lower(n)}

C25_OverrideBypassesSelection ==
  [][\A c \in CommandType : \A ov \in CandidateLists :
       ExecuteCommand(c, ov) =>
         IF pc' = "raised"
         THEN /\ candidates' = <<>>
              /\ ~PrerequisiteMet(c)
                   \/ (ov = <<>> /\ select_agents_for_command(c) = <<>>)
         ELSE /\ candidates' =
                   IF ov # <<>> THEN ov ELSE select_agents_for_command(c)
              /\ pc' = "Trying"
              /\ i' = 1
              /\ log' = <<Event("start", 1, candidates'[1], 1, "")>>
    ]_vars

\* plan runs with the override [generic, archie] while archie is disabled
\* and generic has none of the capabilities plan requires; the automatic
\* selection would have been [stella]
C25_Witness ==
  /\ agents = <<archie, stella, generic>>
  /\ enabled = <<FALSE, TRUE, TRUE>>
  /\ cmd = "plan"
  /\ pc = "Trying"
  /\ candidates = <<3, 1>>
  /\ select_agents_for_command("plan") = <<2>>
  /\ i = 1
  /\ AgentAt(1) = 3

(***************************************************************************)
(* Properties of the generation calls of a command.                        *)
(***************************************************************************)
\* C26 as claimed: while a command executes, every generation call in
\* flight is the running attempt of execute_with_fallback (made for the
\* candidate or the generic agent at the chain position, under the retry
\* policy), and at most one call is in flight.
C26_GenerationInsideFallback ==
  cmd # "none" =>
    /\ Cardinality(pending) <= 1
    /\ \A call \in pending :
         /\ pc \in {"Trying", "FallbackGeneric"}
         /\ call = <<i, attempt_number>>
         /\ attempt_number \in 1..MaxAttempts

\* execute_with_fallback has returned, the artifact is written, and the
\* handler awaits the call generate_suggestions makes on the provider
C26_Witness ==
  /\ cmd = "specify"
  /\ pc = "suggest"
  /\ result # None
  /\ i = 0
  /\ pending = {SuggestCall}
  /\ ArtifactOf("specify") \in artifacts

(***************************************************************************)
(* Properties of the errors execute_command raises to its caller.          *)
(***************************************************************************)
\* C27 as claimed: what the caller of execute_command receives is an
\* AgentExecutionError with the classified message when the whole chain is
\* exhausted, a StateSaveError when the state file cannot be written, and a
\* CommandExecutionError with the handler's own message, nothing added,
\* when the handler fails (missing artifact, no agent).
C27_ErrorKinds ==
  cmd_raised # None =>
    LET err == Get(cmd_raised)
    IN  /\ err.cause = "AgentExecutionError" =>
             /\ err.type = "AgentExecutionError"
             /\ Classes \cap err.message # {}
        /\ err.cause = "StateSaveError" => err.type = "StateSaveError"
        /\ err.cause = "CommandExecutionError" =>
             /\ err.type = "CommandExecutionError"
             /\ err.message \in
                  {PrerequisiteError(cmd), {"No agents available"}}

\* every agent of the chain is exhausted: the caller holds a
\* CommandExecutionError whose message contains the classified message
C27_Witness ==
  /\ pc = "raised"
  /\ cmd_raised # None
  /\ Get(cmd_raised).cause = "AgentExecutionError"
  /\ Get(cmd_raised).type = "CommandExecutionError"
  /\ "Command failed" \in Get(cmd_raised).message
  /\ Classes \cap Get(cmd_raised).message # {}

(***************************************************************************)
(* Properties of the way the process ends.                                 *)
(***************************************************************************)
\* C28 as claimed: an interrupt at the prompt or while a command is in
\* flight ends the process with exit code 130, which differs from the code
\* of a normal exit and from the code of an uncaught failure.
C28_InterruptExits130 ==
  [][Interrupt =>
       /\ exit_code' = Some(130)
       /\ exit_code' # Some(MainOk)
       /\ exit_code' # Some(MainFatal)
    ]_vars

\* the session was interrupted while plan awaited its agent: the process
\* has exited with the code of a normal exit
C28_Witness ==
  /\ pc = "exited"
  /\ cmd = "plan"
  /\ "plan.md" \notin artifacts
  /\ exit_code = Some(MainOk)
  /\ exit_code # Some(MainInterrupted)

(***************************************************************************)
(* Properties of catalog loading.                                          *)
(***************************************************************************)
\* the definitions of the files of a directory that can be parsed, in order
WellFormed(dir) ==
  IF dir = None THEN <<>>
  ELSE LET parsed == SelectSeq(Get(dir), LAMBDA f : f # None)
       IN  [k \in 1..Len(parsed) |-> Get(parsed[k])]

\* C29 as claimed: whatever the agents directory is (missing, empty, with
\* parseable and unparseable files), loading the catalog raises nothing, the
\* process does not end with a fatal error, and the catalog of a running
\* session holds exactly the definitions of the parseable files.
C29_LoadNeverRaises ==
  /\ load_agents(agents_dir).raised = None
  /\ load_agents(agents_dir).agents = WellFormed(agents_dir)
  /\ exit_code # Some(MainFatal)
  /\ pc = "idle" => agents = WellFormed(agents_dir)

\* the agents directory does not exist: the construction raised
\* AgentDefinitionError and main returned 1
C29_Witness ==
  /\ agents_dir = None
  /\ load_agents(agents_dir).raised = Some(AgentDefinitionError)
  /\ pc = "exited"
  /\ exit_code = Some(MainFatal)
  /\ agents = <<>>

(***************************************************************************)
(* Properties of the scope of the enabled flags.                           *)
(***************************************************************************)
\* the keys of the dict save_state writes
DocumentKeys ==
  {"feature_id", "current_phase", "completed_commands", "suggested_next",
   "context_data", "last_checkpoint", "last_updated"}

\* C30: the enabled flags live in the session only: every agent of a
\* catalog that has just been loaded is enabled, whatever was disabled in
\* the session before; enable_agent / disable_agent leave the state file
\* and every other file as they are; the state file holds the keys of
\* save_state and nothing about agents or their flags.
C30_FlagsSessionScoped ==
  [][
     /\ (main /\ pc' = "idle") =>
          /\ Len(enabled') = Len(agents')
          /\ \A k \in 1..Len(agents') : enabled'[k]
     /\ \A n \in CommandAgentNames : \A flag \in BOOLEAN :
          Switch(n, flag) =>
            /\ file' = file
            /\ temp_file' = temp_file
            /\ artifacts' = artifacts
            /\ state' = state
     /\ file' # None =>
          /\ DOMAIN Get(file') = DocumentKeys
          /\ "enabled" \notin DOMAIN Get(file')
          /\ Get(file') = json_dump(ToDocument(FromDocument(Get(file'))))
    ]_vars

\* a session that recorded a command has been left and the process has been
\* started again: every agent of the new catalog is enabled
C30_Witness ==
  /\ pc = "idle"
  /\ succeeded = 0
  /\ file # None
  /\ Len(FromDocument(Get(file)).completed_commands) > 0
  /\ agents = <<archie, stella, generic>>
  /\ enabled = <<TRUE, TRUE, TRUE>>

(***************************************************************************)
(* Properties of the names in the catalog.                                 *)
(***************************************************************************)
\* C31 as claimed: no two loaded agents have names that are equal when
\* letter case is ignored, so a name identifies at most one agent, and every
\* loaded agent is the one get_agent_by_name finds for its name.
C31_NamesUnique ==
  /\ \A a, b \in Loaded :
       Lower(agents[a].name) = Lower(agents[b].name) => a = b
  /\ \A n \in AgentNames : Cardinality(Called(n)) <= 1
  /\ \A k \in Loaded : get_agent_by_name(agents[k].name) = Some(k)

\* two different definitions with the name Archie are loaded: the name
\* finds the first, and the second has kept its flag through a disable
C31_Witness ==
  /\ Len(agents) = 2
  /\ agents[1].name = "Archie"
  /\ agents[2].name = "Archie"
  /\ agents[1].priority # agents[2].priority
  /\ Called("archie") = {1, 2}
  /\ get_agent_by_name(agents[2].name) = Some(1)
  /\ ~enabled[1]
  /\ enabled[2]

(***************************************************************************)
(* The waits between the attempts made with one candidate.                 *)
(***************************************************************************)
\* C32 as claimed: the wait before the second attempt with a candidate is 2,
\* every later wait is twice the wait before it (4 before the third
\* attempt), and no wait is longer than 10.
C32_BackoffDoubles ==
  /\ Len(sleeps) >= 1 => sleeps[1] = 2
  /\ \A k \in 2..Len(sleeps) : sleeps[k] = 2 * sleeps[k - 1]
  /\ Len(sleeps) >= 2 => sleeps[2] = 4
  /\ \A k \in 1..Len(sleeps) : sleeps[k] <= WaitMax

\* the third attempt with a candidate is pending after waits of 2 and 2
C32_Witness ==
  /\ pc = "Trying"
  /\ attempt_number = MaxAttempts
  /\ sleeps = <<2, 2>>
  /\ pending = {<<i, MaxAttempts>>}

(***************************************************************************)
(* Properties of a command whose prerequisite is missing.                  *)
(***************************************************************************)
\* the artifact command c reads is not among arts
Missing(c, arts) ==
  CASE c \in {"plan", "clarify"}      -> "spec.md" \notin arts
    [] c = "tasks"                    -> "plan.md" \notin arts
    [] c = "implement"                -> "tasks.md" \notin arts
    [] c \in {"analyze", "checklist"} ->
         arts \cap {"spec.md", "plan.md", "tasks.md"} = {}
    [] OTHER                          -> FALSE

\* C33: a command started while the artifact it reads is missing has raised
\* a CommandExecutionError, no generation call was started or is pending, no
\* artifact was written, and the workflow state in memory and in the state
\* file is what it was when the command started.
C33_MissingPrerequisiteFails ==
  (cmd # "none" /\ entry # None /\ Missing(cmd, Get(entry).artifacts)) =>
    /\ pc = "raised"
    /\ cmd_raised # None
    /\ Get(cmd_raised).type = "CommandExecutionError"
    /\ log = <<>>
    /\ pending = {}
    /\ result = None
    /\ artifacts = Get(entry).artifacts
    /\ state = Get(entry).state
    /\ file = Get(entry).file

\* tasks was asked for after a recorded specify, with spec.md and without
\* plan.md: the command has raised "Plan file not found"
C33_Witness ==
  /\ pc = "raised"
  /\ cmd = "tasks"
  /\ artifacts = {"spec.md"}
  /\ Len(state.completed_commands) = 1
  /\ file # None
  /\ cmd_raised # None
  /\ PrerequisiteError("tasks") \subseteq Get(cmd_raised).message
  /\ log = <<>>

(***************************************************************************)
(* Properties of the order of the records in the history.                  *)
(***************************************************************************)
\* every record of command c in the history h has a record of before ahead
\* of it
Preceded(h, c, before) ==
  \A k \in 1..Len(h) :
    h[k].command = c => \E j \in 1..(k - 1) : h[j].command = before

\* the workflow order holds in the history h
Ordered(h) ==
  /\ Preceded(h, "plan", "specify")
  /\ Preceded(h, "tasks", "plan")
  /\ Preceded(h, "implement", "tasks")

\* C34 as claimed: in a session that started with no artifact and an empty
\* history, whichever steps failed, every plan record in completed_commands
\* has a specify record before it, every tasks record a plan record, and
\* every implement record a tasks record, in memory and in the state file.
C34_HistoryFollowsWorkflow ==
  /\ Ordered(state.completed_commands)
  /\ file # None => Ordered(FromDocument(Get(file)).completed_commands)

\* specify wrote spec.md and failed afterwards without a record; the plan
\* command that followed succeeded, and its record opens the history
C34_Witness ==
  /\ pc = "returned"
  /\ cmd = "plan"
  /\ faults = 1
  /\ succeeded = 1
  /\ {"spec.md", "plan.md"} \subseteq artifacts
  /\ Len(state.completed_commands) = 1
  /\ state.completed_commands[1].command = "plan"
  /\ file # None
  /\ FromDocument(Get(file)).completed_commands = state.completed_commands

(***************************************************************************)
(* Properties that tie the phase to the history.                           *)
(***************************************************************************)
\* the commands whose handler assigns the phase
PhaseCommands == {"constitution", "specify", "plan", "tasks", "implement"}

\* the phase named by the most recent record of such a command in the
\* history h, draft when h has none
RECURSIVE PhaseNamed(_)
PhaseNamed(h) ==
  IF h = <<>> THEN "draft"
  ELSE IF h[Len(h)].command \in PhaseCommands THEN h[Len(h)].command
  ELSE PhaseNamed(SubSeq(h, 1, Len(h) - 1))

\* the place of a phase in the enumeration
PhaseRank(phase) ==
  CASE phase = "draft"        -> 0
    [] phase = "constitution" -> 1
    [] phase = "specify"      -> 2
    [] phase = "clarify"      -> 3
    [] phase = "plan"         -> 4
    [] phase = "tasks"        -> 5
    [] phase = "implement"    -> 6

C36_SuggestionSavedLate ==
  [][
    /\ (pc = "suggest" /\ pc' = "returned") =>
         /\ file' # None
         /\ FromDocument(Get(file')).suggested_next = state.suggested_next
         /\ state.suggested_next = Get(entry).state.suggested_next
         /\ state'.suggested_next = SuggestedAfter(cmd, state.suggested_next)
    /\ (pc = "returned" /\ pc' = "idle") =>
         /\ file' = file
         /\ \/ state' = state
            \/ state'.suggested_next = Get(entry).state.suggested_next
  ]_vars

\* plan has returned on the state object an earlier specify left behind:
\* the file now holds specify's suggestion, the object holds plan's
C36_Witness ==
  /\ pc = "returned"
  /\ cmd = "plan"
  /\ entry # None
  /\ Get(entry).state.suggested_next = Some("plan")
  /\ Get(entry).file # None
  /\ FromDocument(Get(Get(entry).file)).suggested_next = None
  /\ file # None
  /\ FromDocument(Get(file)).suggested_next = Some("plan")
  /\ state.suggested_next = Some("tasks")

(***************************************************************************)
(* Properties of the error the classification reads.                       *)
(***************************************************************************)
\* the class the claim gives a text: authentication before rate limit
ClassOf(text) ==
  IF AuthMarked(text) THEN "Authentication failed"
  ELSE IF RateMarked(text) THEN "Rate limit exceeded"
  ELSE "All agents failed to execute"

\* C37: when the last agent of the chain (the last candidate, or the generic
\* agent when it ran) is exhausted and execute_with_fallback raises, the text
\* that is classified is the error of that agent alone: the error an earlier
\* agent left behind is dropped, so an earlier authentication failure and an
\* unmarked last failure give "All agents failed", and a last text with both
\* an authentication and a rate-limit marker gives "Authentication failed".
C37_LastErrorDecides ==
  [][
    (pc \in {"Trying", "FallbackGeneric"} /\ pc' = "Failed") =>
      /\ error_details' # None
      /\ raised' # None
      /\ \E e \in ProviderErrors :
           Get(error_details') = AgentErrorText(agents[AgentAt(i)], e)
      /\ Get(raised').message \cap Classes = {ClassOf(Get(error_details'))}
      /\ ( /\ error_details # None
           /\ AuthMarked(Get(error_details))
           /\ ~AuthMarked(Get(error_details'))
           /\ ~RateMarked(Get(error_details')) ) =>
             "All agents failed to execute" \in Get(raised').message
      /\ (AuthMarked(Get(error_details')) /\ RateMarked(Get(error_details')))
           => "Authentication failed" \in Get(raised').message
  ]_vars

\* two candidates and the generic agent were tried, the text of the generic
\* agent's error holds both markers, and the failure is an authentication
\* failure that carries this text alone
C37_Witness ==
  /\ pc = "Failed"
  /\ Len(candidates) = 2
  /\ i = 3
  /\ raised # None
  /\ error_details # None
  /\ Get(error_details) = AgentErrorText(agents[AgentAt(3)], {"401", "429"})
  /\ Get(raised).message \cap Classes = {"Authentication failed"}
  /\ \A k \in 1..2 : agents[candidates[k]].name \notin Get(raised).message

(***************************************************************************)
(* Properties of the end of execute_with_fallback.                         *)
(***************************************************************************)
\* the generation calls started so far
Started == {k \in 1..Len(log) : log[k].ev = "start"}

\* the events that exhaust an entry of the chain
Exhausts == {k \in 1..Len(log) : log[k].ev = "fail" /\ log[k].attempt = 3}

\* at most 3 * (n + 1) generation calls are made for a list of length n
CallsBounded == Cardinality(Started) <= 3 * (Len(candidates) + 1)

\* an invocation under way comes to its end
Terminates ==
  (pc \in {"Trying", "FallbackGeneric"}) ~> (pc \in {"Succeeded", "Failed"})

\* C38 as claimed: every invocation on a list of length n ends in Succeeded
\* or Failed after at most 3 * (n + 1) generation calls when every call
\* returns or raises, and no generation call is made with an agent that
\* has already failed.
C38_NeverBackToFailedAgent ==
  /\ [](CallsBounded /\
        \A j \in Exhausts : \A k \in Started :
          j < k => log[k].agent # log[j].agent)
  /\ Terminates

\* C38: every invocation on a list of length n ends in Succeeded or Failed
\* after at most 3 * (n + 1) generation calls when every call returns or
\* raises; the chain only moves forward, and no call is made at a position
\* that is exhausted or lies before the one in turn.  An agent listed twice
\* is called again at its later position.
C38_TerminatesMovingForward ==
  /\ [](CallsBounded /\
        \A j, k \in 1..Len(log) :
          j < k => /\ log[j].i <= log[k].i
                   /\ j \in Exhausts => log[j].i < log[k].i)
  /\ Terminates

\* the list names one agent twice and the generic agent is not in it: the
\* agent failed at both positions, the generic agent failed too, and the
\* invocation ended in Failed after 3 * (2 + 1) calls
C38_Witness ==
  /\ pc = "Failed"
  /\ Len(candidates) = 2
  /\ candidates[1] = candidates[2]
  /\ i = 3
  /\ Cardinality(Started) = 9
  /\ Cardinality(Exhausts) = 3
  /\ pending = {}

(***************************************************************************)
(* Properties of the generic fallback under the enabled flags.             *)
(***************************************************************************)
\* C39: when the last agent of the list handed to execute_with_fallback is
\* exhausted, the generic agent is called exactly when there is one and it
\* is not in the list, whether the list is the user's override or the
\* automatic selection and whether the generic agent is enabled or not; the
\* agent reported as used is an agent of the list or that generic agent.
C39_FallbackIgnoresFlag ==
  [][
    /\ (pc = "Trying" /\ pc' \in {"FallbackGeneric", "raised"}) =>
         /\ pc' = "FallbackGeneric" <=>
              (Generics # {} /\ FirstGeneric \notin Range(candidates))
         /\ pc' = "FallbackGeneric" =>
              /\ pending' = {<<Len(candidates) + 1, 1>>}
              /\ log'[Len(log')] =
                   Event("start", Len(candidates) + 1, FirstGeneric, 1, "")
    /\ (pc = "FallbackGeneric" /\ pc' = "suggest") =>
         /\ Get(result').agent_used = FirstGeneric
         /\ FirstGeneric \notin Range(candidates)
    /\ (pc = "Trying" /\ pc' = "suggest") =>
         Get(result').agent_used \in Range(candidates)
  ]_vars

\* the user disabled the generic agent and ran specify with the override
\* list [stella]: stella failed, the generic agent answered, and the command
\* has returned with the generic agent as the agent used
C39_Witness ==
  /\ pc = "returned"
  /\ cmd = "specify"
  /\ agents = <<archie, stella, generic>>
  /\ candidates = <<2>>
  /\ select_agents_for_command("specify") # candidates
  /\ result # None
  /\ Get(result).agent_used = 3
  /\ ~enabled[3]
  /\ 3 \notin Range(candidates)
  /\ state.completed_commands[1].command = "specify"

====
